---- MODULE Spec2Model ----
(***************************************************************************)
(* webcc / csoap HTTP transport core.                                      *)
(*                                                                         *)
(*   - HttpClientBase (webcc/http_client_base.cc): the blocking Request    *)
(*     call that drives one io_context, racing a deadline timer against    *)
(*     socket reads.                                                       *)
(*   - RestServiceManager / RestRequestHandler (csoap/rest_server.cc):     *)
(*     the ordered regex route registry and the request dispatcher.        *)
(***************************************************************************)
EXTENDS Integers, Sequences, FiniteSets, TLC

(***************************************************************************)
(* Bounds of the model.                                                    *)
(***************************************************************************)
\* Number of Request calls made on one engine.
MaxRequests == 2
\* Number of socket reads (DoReadResponse frames) one Request may issue.
MaxReads == 2
\* Number of items service_items_ may hold.
MaxServices == 2
\* Length of a request path, in characters after the leading "/".
MaxPathLen == 2

(***************************************************************************)
(* Program constants.                                                      *)
(***************************************************************************)
kMaxReadSeconds == 30
kBadRequest == 400
kOK == 200

kNoError == "kNoError"
kHostResolveError == "kHostResolveError"
kEndpointConnectError == "kEndpointConnectError"
kSocketWriteError == "kSocketWriteError"
kSocketReadError == "kSocketReadError"
kHttpError == "kHttpError"

kTextJsonUtf8 == "text/json; charset=utf-8"

VARIABLES
  \* ---- HttpClientBase -------------------------------------------------
  client,     \* the engine object: its fields, its socket, timer, io_context
  pc,         \* where the calling thread is: "idle", "reading", "done"
  result,     \* the value the last Request returned
  error,      \* the local `error` of ReadResponse that the read handler sets
  depth,      \* DoReadResponse frames on the stack (reads issued so far)
  peer,       \* what the remote peer does in this Request: "silent", "active"
  requests,   \* Request calls made so far
  \* ---- RestRequestHandler ---------------------------------------------
  service_items_,  \* RestServiceManager::service_items_
  call,            \* the last call made on the REST server and its result
  session,         \* the session the last HandleSession was given
  workers          \* the GetService call each worker thread is in

vars == <<client, pc, result, error, depth, peer, requests,
          service_items_, call, session, workers>>

clientVars == <<client, pc, result, error, depth, peer, requests>>
restVars == <<service_items_, call, session, workers>>

(***************************************************************************)
(* HttpClientBase                                                          *)
(***************************************************************************)

\* The values SetTimeout is called with.
TimeoutInputs == {-1, 0, 1}

\* What a socket read can complete with: bytes the parser accepts without
\* being finished, bytes that complete the response, bytes the parser
\* rejects, zero bytes, and an I/O error.
PeerReads == {"read_part", "read_last", "read_bad", "read_eof", "read_err"}

\* The engine after construction.  closes, cancels and stops count the
\* SocketClose, deadline_.cancel and Stop calls of the current Request; log
\* lists what the current Request did, in order; seconds is the argument of
\* the last SetTimeout; last holds the flags the previous Request left.
HttpClientBase ==
  [timeout_seconds_ |-> kMaxReadSeconds,
   stopped_         |-> FALSE,
   timed_out_       |-> FALSE,
   error_           |-> kNoError,
   finished         |-> FALSE,    \* response_parser_->finished()
   parsed           |-> 0,        \* pieces the parser has accepted
   socket_open      |-> FALSE,
   read_pending     |-> FALSE,    \* an async read is outstanding
   waits            |-> 0,        \* outstanding async_wait on deadline_
   expired          |-> FALSE,    \* deadline_.expires_at() <= now
   queue            |-> <<>>,     \* completed operations io_context_ holds
   io_stopped       |-> FALSE,    \* io_context_ ran out of work
   closes           |-> 0,
   cancels          |-> 0,
   stops            |-> 0,
   log              |-> <<>>,
   seconds          |-> kMaxReadSeconds,
   last             |-> [stopped_ |-> FALSE, timed_out_ |-> FALSE,
                         error_ |-> kNoError, finished |-> FALSE]]

Log(e, event) == [e EXCEPT !.log = Append(@, event)]

\* deadline_.cancel(): every outstanding wait completes (operation_aborted)
\* and its handler is queued on the io_context.
DeadlineCancel(e) ==
  [e EXCEPT !.queue = @ \o [i \in 1..e.waits |-> "OnDeadline"],
            !.waits = 0,
            !.cancels = @ + 1]

\* SocketClose: an outstanding read completes with operation_aborted; a
\* read that has already completed keeps its result.
SocketClose(e) ==
  [e EXCEPT !.socket_open = FALSE,
            !.read_pending = FALSE,
            !.queue = IF e.read_pending THEN Append(@, "read_aborted") ELSE @,
            !.closes = @ + 1]

\* Stop without its `if (stopped_) return`.
Stop_NoGuard(e) ==
  DeadlineCancel(SocketClose([e EXCEPT !.stopped_ = TRUE, !.stops = @ + 1]))

Stop(e) ==
  IF e.stopped_
  THEN [e EXCEPT !.stops = @ + 1]
  ELSE DeadlineCancel(SocketClose([e EXCEPT !.stopped_ = TRUE,
                                            !.stops = @ + 1]))

\* deadline_.async_wait(OnDeadline).
DoWaitDeadline(e) == Log([e EXCEPT !.waits = @ + 1], "wait")

\* OnDeadline that stops on expiry without `timed_out_ = true`.
OnDeadline_NoFlag(e) ==
  LET d == Log(e, "OnDeadline") IN
  IF d.stopped_ THEN d
  ELSE IF d.expired THEN Stop(d)
  ELSE DoWaitDeadline(d)

\* OnDeadline that sets timed_out_ on expiry and does not call Stop.
OnDeadline_NoStop(e) ==
  LET d == Log(e, "OnDeadline") IN
  IF d.stopped_ THEN d
  ELSE IF d.expired THEN [d EXCEPT !.timed_out_ = TRUE]
  ELSE DoWaitDeadline(d)

\* OnDeadline that takes every dispatch for an expiry.
OnDeadline_NoExpiryCheck(e) ==
  LET d == Log(e, "OnDeadline") IN
  IF d.stopped_ THEN d
  ELSE Stop([d EXCEPT !.timed_out_ = TRUE])

OnDeadline(e) ==
  LET d == Log(e, "OnDeadline") IN
  IF d.stopped_ THEN d
  ELSE IF d.expired THEN Stop([d EXCEPT !.timed_out_ = TRUE])
  ELSE DoWaitDeadline(d)

\* HttpResponseParser::Parse on the piece just read, and finished().
Parse(e, piece) ==
  IF piece = "read_bad"
  THEN [ok |-> FALSE, e |-> e]
  ELSE [ok |-> TRUE,
        e  |-> [e EXCEPT !.parsed = @ + 1,
                         !.finished = (piece = "read_last")]]

\* The read handler of DoReadResponse, up to its recursive call: `again`
\* says that it goes on to call DoReadResponse.
read_handler(e0, err, r) ==
  LET e == Log(e0, r) IN
  IF r \in {"read_eof", "read_err", "read_aborted"}
  THEN [e |-> Stop(e), error |-> kSocketReadError, again |-> FALSE]
  ELSE LET p == Parse(e, r) IN
       IF ~p.ok
       THEN [e |-> Stop(p.e), error |-> kHttpError, again |-> FALSE]
       ELSE IF p.e.finished
       THEN [e |-> Stop(p.e), error |-> err, again |-> FALSE]
       ELSE IF ~p.e.stopped_
       THEN [e |-> p.e, error |-> err, again |-> TRUE]
       ELSE [e |-> p.e, error |-> err, again |-> FALSE]

\* SocketAsyncReadSome: on an open socket the read is outstanding; on a
\* closed one it completes at once with an error.
SocketAsyncReadSome(e) ==
  IF e.socket_open
  THEN Log([e EXCEPT !.read_pending = TRUE], "read")
  ELSE Log([e EXCEPT !.queue = Append(@, "read_err")], "read")

\* DoConnect that reports a resolve failure as a connect failure.
DoConnect_WrongCode(e, resolve_ok, connect_ok) ==
  IF ~resolve_ok
  THEN [e |-> Log(e, "resolve_err"), error |-> kEndpointConnectError]
  ELSE IF ~connect_ok
  THEN [e     |-> Stop(Log(Log(e, "resolve_ok"), "connect_err")),
        error |-> kEndpointConnectError]
  ELSE [e     |-> [Log(Log(e, "resolve_ok"), "connect_ok")
                     EXCEPT !.socket_open = TRUE],
        error |-> kNoError]

DoConnect(e, resolve_ok, connect_ok) ==
  IF ~resolve_ok
  THEN [e |-> Log(e, "resolve_err"), error |-> kHostResolveError]
  ELSE IF ~connect_ok
  THEN [e     |-> Stop(Log(Log(e, "resolve_ok"), "connect_err")),
        error |-> kEndpointConnectError]
  ELSE [e     |-> [Log(Log(e, "resolve_ok"), "connect_ok")
                     EXCEPT !.socket_open = TRUE],
        error |-> kNoError]

\* SendReqeust that returns on a write error without Stop.
SendReqeust_NoStop(e, write_ok) ==
  IF ~write_ok
  THEN [e |-> Log(e, "write_err"), error |-> kSocketWriteError]
  ELSE [e |-> Log(e, "write_ok"), error |-> kNoError]

SendReqeust(e, write_ok) ==
  IF ~write_ok
  THEN [e |-> Stop(Log(e, "write_err")), error |-> kSocketWriteError]
  ELSE [e |-> Log(e, "write_ok"), error |-> kNoError]

\* ReadResponse up to the first run_one: expires_from_now cancels the
\* outstanding waits and sets the expiry, then the wait and the first read
\* are started.
ReadResponse(e) ==
  LET c == [e EXCEPT !.queue = @ \o [i \in 1..e.waits |-> "OnDeadline"],
                     !.waits = 0,
                     !.expired = (e.timeout_seconds_ <= 0)]
  IN SocketAsyncReadSome(DoWaitDeadline(c))

\* The start of Request without `timed_out_ = false`.
RequestReset_KeepTimedOut(e) ==
  [e EXCEPT !.io_stopped = FALSE,
            !.finished = FALSE,
            !.parsed = 0,
            !.stopped_ = FALSE,
            !.error_ = kNoError,
            !.closes = 0,
            !.cancels = 0,
            !.stops = 0,
            !.log = <<>>,
            !.last = [stopped_ |-> e.stopped_, timed_out_ |-> e.timed_out_,
                      error_ |-> e.error_, finished |-> e.finished]]

\* The start of Request: restart of the io_context and reset of the
\* per-call state.
RequestReset(e) ==
  [e EXCEPT !.io_stopped = FALSE,
            !.finished = FALSE,
            !.parsed = 0,
            !.stopped_ = FALSE,
            !.timed_out_ = FALSE,
            !.error_ = kNoError,
            !.closes = 0,
            !.cancels = 0,
            !.stops = 0,
            !.log = <<>>,
            !.last = [stopped_ |-> e.stopped_, timed_out_ |-> e.timed_out_,
                      error_ |-> e.error_, finished |-> e.finished]]

\* The io_context stops when a handler run from the outermost run_one
\* returns and no operation is outstanding or queued.
WorkFinished(e) ==
  [e EXCEPT !.io_stopped = (e.queue = <<>> /\ e.waits = 0 /\ ~e.read_pending)]

\* SetTimeout that accepts 0.
SetTimeout_NonNegative(seconds) ==
  /\ pc \in {"idle", "done"}
  /\ client' = [client EXCEPT !.timeout_seconds_ =
                                 IF seconds >= 0 THEN seconds ELSE @,
                              !.seconds = seconds]
  /\ UNCHANGED <<pc, result, error, depth, peer, requests, restVars>>

SetTimeout(seconds) ==
  /\ pc \in {"idle", "done"}
  /\ client' = [client EXCEPT !.timeout_seconds_ =
                                 IF seconds > 0 THEN seconds ELSE @,
                              !.seconds = seconds]
  /\ UNCHANGED <<pc, result, error, depth, peer, requests, restVars>>

\* Request that goes on to SendReqeust after a failed Connect.
Request_NoEarlyReturn(resolve_ok, connect_ok, write_ok, behaviour) ==
  /\ pc \in {"idle", "done"}
  /\ requests < MaxRequests
  /\ requests' = requests + 1
  /\ LET e0 == RequestReset(client)
         c  == DoConnect(e0, resolve_ok, connect_ok)
         s  == SendReqeust(c.e, write_ok)
     IN IF s.error # kNoError
        THEN /\ client' = [s.e EXCEPT !.error_ = s.error]
             /\ pc' = "done"
             /\ result' = FALSE
             /\ UNCHANGED <<error, depth, peer>>
        ELSE /\ client' = ReadResponse(s.e)
             /\ pc' = "reading"
             /\ error' = kNoError
             /\ depth' = 1
             /\ peer' = behaviour
             /\ UNCHANGED result
  /\ UNCHANGED restVars

\* Request, from its call to its return or to the first time it blocks in
\* run_one.
Request(resolve_ok, connect_ok, write_ok, behaviour) ==
  /\ pc \in {"idle", "done"}
  /\ requests < MaxRequests
  /\ requests' = requests + 1
  /\ LET e0 == RequestReset(client)
         c  == DoConnect(e0, resolve_ok, connect_ok)
         s  == SendReqeust(c.e, write_ok)
     IN IF c.error # kNoError
        THEN /\ client' = [c.e EXCEPT !.error_ = c.error]
             /\ pc' = "done"
             /\ result' = FALSE
             /\ UNCHANGED <<error, depth, peer>>
        ELSE IF s.error # kNoError
        THEN /\ client' = [s.e EXCEPT !.error_ = s.error]
             /\ pc' = "done"
             /\ result' = FALSE
             /\ UNCHANGED <<error, depth, peer>>
        ELSE /\ client' = ReadResponse(s.e)
             /\ pc' = "reading"
             /\ error' = kNoError
             /\ depth' = 1
             /\ peer' = behaviour
             /\ UNCHANGED result
  /\ UNCHANGED restVars

\* The clock reaches the expiry time of the deadline timer.
DeadlinePasses ==
  /\ pc = "reading"
  /\ ~client.expired
  /\ client' = [client EXCEPT !.expired = TRUE]
  /\ UNCHANGED <<pc, result, error, depth, peer, requests, restVars>>

\* The waits on an expired timer complete; their handlers are queued.
TimerFires ==
  /\ pc = "reading"
  /\ client.expired
  /\ client.waits > 0
  /\ client' = [client EXCEPT
                  !.queue = @ \o [i \in 1..client.waits |-> "OnDeadline"],
                  !.waits = 0]
  /\ UNCHANGED <<pc, result, error, depth, peer, requests, restVars>>

\* The outstanding socket read completes with what the peer did.
ReadCompletes(r) ==
  /\ pc = "reading"
  /\ peer = "active"
  /\ client.read_pending
  /\ r = "read_part" => depth < MaxReads
  /\ client' = [client EXCEPT !.read_pending = FALSE,
                              !.queue = Append(@, r)]
  /\ UNCHANGED <<pc, result, error, depth, peer, requests, restVars>>

\* run_one dispatches a wait handler: the loop of DoReadResponse goes on.
RunOneDeadline ==
  /\ pc = "reading"
  /\ ~client.io_stopped
  /\ client.queue # <<>>
  /\ Head(client.queue) = "OnDeadline"
  /\ client' = OnDeadline([client EXCEPT !.queue = Tail(@)])
  /\ UNCHANGED <<pc, result, error, depth, peer, requests, restVars>>

\* run_one dispatches the read handler.  Either the handler calls
\* DoReadResponse again, which starts the next read and blocks in run_one,
\* or every DoReadResponse frame returns (each frame's ec is set), then
\* ReadResponse and Request.
RunOneRead ==
  /\ pc = "reading"
  /\ ~client.io_stopped
  /\ client.queue # <<>>
  /\ Head(client.queue) # "OnDeadline"
  /\ LET h == read_handler([client EXCEPT !.queue = Tail(@)], error,
                           Head(client.queue))
     IN IF h.again
        THEN /\ client' = SocketAsyncReadSome(h.e)
             /\ depth' = depth + 1
             /\ error' = h.error
             /\ UNCHANGED <<pc, result>>
        ELSE /\ client' = WorkFinished([h.e EXCEPT !.error_ = h.error])
             /\ error' = h.error
             /\ result' = (h.error = kNoError)
             /\ pc' = "done"
             /\ UNCHANGED depth
  /\ UNCHANGED <<peer, requests, restVars>>

(***************************************************************************)
(* RestServiceManager                                                      *)
(*                                                                         *)
(* A URL pattern is a sequence of regex tokens: a literal character, "."   *)
(* (any character), ".*" (any characters, greedy), "(" and ")" (a          *)
(* capturing group).  A path is a sequence of characters: "/" followed by  *)
(* at most MaxPathLen characters.                                          *)
(***************************************************************************)
PathChars == {"a", "A"}

Paths ==
  {<<"/">> \o w : w \in UNION {[1..n -> PathChars] : n \in 0..MaxPathLen}}

\* The patterns AddService is called with; the last two do not compile.
UrlPatterns ==
  { <<"/", "a">>,
    <<"/", ".*">>,
    <<"/", "(", ".*", ")", "A">>,
    <<"/", "(", ".", ")", "(", ".*", ")">>,
    <<"/", "(", "a">>,
    <<"/", ")", "a">> }

\* Services are numbered in the order the application registers them;
\* RestServicePtr(), the empty pointer, is none of them.
Services == 1..MaxServices
NullService == 0

\* The method and body of an inbound request, and what a service's Handle
\* writes to its output; bodies are character sequences.
MethodContents == { <<"GET", <<>>>>, <<"POST", <<"{", "}">>>> }
Outputs == { <<>>, <<"[", "]">> }

\* Case folding of std::regex::icase.
Lower(c) == IF c = "A" THEN "a" ELSE c

\* Nesting depth of the parentheses of url[1..i]; -1 once a ")" has no "(".
RECURSIVE ParenDepth(_, _)
ParenDepth(url, i) ==
  IF i = 0 THEN 0
  ELSE LET d == ParenDepth(url, i - 1) IN
       IF d < 0 THEN d
       ELSE IF url[i] = "(" THEN d + 1
       ELSE IF url[i] = ")" THEN d - 1
       ELSE d

\* url_regex.assign(url, ECMAScript | icase): throws regex_error when the
\* parentheses are not balanced, else gives the case-folded program.
RegexAssign(url) ==
  [ok    |-> ParenDepth(url, Len(url)) = 0,
   regex |-> [i \in 1..Len(url) |-> Lower(url[i])]]

\* Number of the capturing group that the "(" at position i opens.
GroupNo(re, i) == Cardinality({k \in 1..i : re[k] = "("})

\* Backtracking match of re[i..] against s[j..]: open is the stack of the
\* groups entered and not yet left, caps the sub-matches found so far.
RECURSIVE MatchFrom(_, _, _, _, _, _)
RECURSIVE StarFrom(_, _, _, _, _, _, _)
MatchFrom(re, s, i, j, open, caps) ==
  IF i > Len(re)
  THEN [ok |-> (j = Len(s) + 1), caps |-> caps]
  ELSE LET t == re[i] IN
       CASE t = "(" ->
              MatchFrom(re, s, i + 1, j,
                        <<[g |-> GroupNo(re, i), start |-> j]>> \o open, caps)
         [] t = ")" ->
              MatchFrom(re, s, i + 1, j, Tail(open),
                        [caps EXCEPT ![Head(open).g] =
                                        SubSeq(s, Head(open).start, j - 1)])
         [] t = ".*" ->
              StarFrom(re, s, i, j, Len(s) + 1 - j, open, caps)
         [] t = "." ->
              IF j <= Len(s)
              THEN MatchFrom(re, s, i + 1, j + 1, open, caps)
              ELSE [ok |-> FALSE, caps |-> caps]
         [] OTHER ->
              IF j <= Len(s) /\ Lower(s[j]) = t
              THEN MatchFrom(re, s, i + 1, j + 1, open, caps)
              ELSE [ok |-> FALSE, caps |-> caps]

\* ".*" at position i taking k characters, then fewer.
StarFrom(re, s, i, j, k, open, caps) ==
  LET m == MatchFrom(re, s, i + 1, j + k, open, caps) IN
  IF m.ok THEN m
  ELSE IF k = 0 THEN [ok |-> FALSE, caps |-> caps]
  ELSE StarFrom(re, s, i, j, k - 1, open, caps)

\* std::regex_match(url, match, re): the whole of url must match; caps
\* holds match[1], ..., match[match.size() - 1].
regex_match(url, re) ==
  MatchFrom(re, url, 1, 1, <<>>,
            [g \in 1..GroupNo(re, Len(re)) |-> <<>>])

\* The std::smatch of a successful match: match[0] is the whole string,
\* match[1], ... are the sub-matches.
MatchResults(url, m) == <<url>> \o m.caps

\* The sub-match loop of GetService that starts from 0.
SubMatches_FromZero(match) == match

\* The sub-match loop of GetService: match[i].str() for i from 1 up to
\* match.size() - 1.
SubMatches(match) == [i \in 1..(Len(match) - 1) |-> match[i + 1]]

ServiceItem(service, url) ==
  [service |-> service, url |-> url, url_regex |-> <<>>]

\* AddService that does push_back before the regex is compiled.
AddService_PushFirst(items, service, url) ==
  LET r == RegexAssign(url) IN
  [items |-> Append(items, [ServiceItem(service, url)
                              EXCEPT !.url_regex = r.regex]),
   ret   |-> r.ok]

AddService(items, service, url) ==
  LET r == RegexAssign(url) IN
  IF r.ok
  THEN [items |-> Append(items, [ServiceItem(service, url)
                                   EXCEPT !.url_regex = r.regex]),
        ret   |-> TRUE]
  ELSE [items |-> items, ret |-> FALSE]

\* The loop of GetService from the k-th item on.
RECURSIVE GetServiceFrom(_, _, _, _)
GetServiceFrom(items, k, url, sub_matches) ==
  IF k > Len(items)
  THEN [service |-> NullService, sub_matches |-> sub_matches]
  ELSE LET match == regex_match(url, items[k].url_regex) IN
       IF match.ok
       THEN [service |-> items[k].service,
             sub_matches |-> sub_matches
                               \o SubMatches(MatchResults(url, match))]
       ELSE GetServiceFrom(items, k + 1, url, sub_matches)

\* GetService that keeps scanning and returns the last matching item.
RECURSIVE GetService_LastFrom(_, _, _, _)
GetService_LastFrom(items, k, url, sub_matches) ==
  IF k = 0
  THEN [service |-> NullService, sub_matches |-> sub_matches]
  ELSE LET match == regex_match(url, items[k].url_regex) IN
       IF match.ok
       THEN [service |-> items[k].service,
             sub_matches |-> sub_matches
                               \o SubMatches(MatchResults(url, match))]
       ELSE GetService_LastFrom(items, k - 1, url, sub_matches)

GetService_LastMatch(items, url, sub_matches) ==
  GetService_LastFrom(items, Len(items), url, sub_matches)

GetService(items, url, sub_matches) ==
  GetServiceFrom(items, 1, url, sub_matches)

\* The worker threads that call HandleSession.
Workers == {"w1", "w2"}

\* A worker thread outside GetService.
NoLookup ==
  [at |-> "idle", url |-> <<>>, k |-> 0, sub_matches |-> <<>>,
   service |-> NullService]

\* One iteration of GetService that moves the matching item to the front.
GetServiceStep_MoveToFront(items, local) ==
  IF local.k > Len(items)
  THEN [items |-> items,
        local |-> [local EXCEPT !.at = "returned"]]
  ELSE LET match == regex_match(local.url, items[local.k].url_regex) IN
       IF match.ok
       THEN [items |-> <<items[local.k]>>
                         \o SubSeq(items, 1, local.k - 1)
                         \o SubSeq(items, local.k + 1, Len(items)),
             local |-> [local EXCEPT
                          !.at = "returned",
                          !.service = items[local.k].service,
                          !.sub_matches =
                            @ \o SubMatches(MatchResults(local.url, match))]]
       ELSE [items |-> items, local |-> [local EXCEPT !.k = @ + 1]]

\* One iteration of the loop of GetService, or its return after the loop,
\* by a thread whose locals are `local`; items is service_items_ as the
\* thread finds it.
GetServiceStep(items, local) ==
  IF local.k > Len(items)
  THEN [items |-> items,
        local |-> [local EXCEPT !.at = "returned"]]
  ELSE LET match == regex_match(local.url, items[local.k].url_regex) IN
       IF match.ok
       THEN [items |-> items,
             local |-> [local EXCEPT
                          !.at = "returned",
                          !.service = items[local.k].service,
                          !.sub_matches =
                            @ \o SubMatches(MatchResults(local.url, match))]]
       ELSE [items |-> items, local |-> [local EXCEPT !.k = @ + 1]]

(***************************************************************************)
(* RestRequestHandler                                                      *)
(***************************************************************************)

\* The Url class: a request target parses to a validity flag and a path.
Targets ==
  {[valid |-> TRUE, path |-> p] : p \in Paths}
    \cup {[valid |-> FALSE, path |-> <<"/", "a">>]}
IsValid(url) == url.valid
UrlPath(url) == url.path

Requests ==
  {[url |-> t, method |-> mc[1], content |-> mc[2]] :
     t \in Targets, mc \in MethodContents}

\* A session as HandleSession receives it; trace lists the calls made on it.
NewSession(request) ==
  [request        |-> request,
   status         |-> 0,
   content_type   |-> "",
   content_length |-> 0,
   content        |-> <<>>,
   sent           |-> 0,
   trace          |-> <<>>]

SetResponseStatus(s, status) ==
  [s EXCEPT !.status = status, !.trace = Append(@, "SetResponseStatus")]

SetResponseContent(s, type, length, content) ==
  [s EXCEPT !.content_type = type,
            !.content_length = length,
            !.content = content,
            !.trace = Append(@, "SetResponseContent")]

SendResponse(s) ==
  [s EXCEPT !.sent = @ + 1, !.trace = Append(@, "SendResponse")]

\* The bad-request reply of HandleSession: status, then send.
\* This variant leaves out SendResponse.
RespondBadRequest_NoSend(s) == SetResponseStatus(s, kBadRequest)

RespondBadRequest(s) == SendResponse(SetResponseStatus(s, kBadRequest))

\* The reply of HandleSession with content.length() taken from the
\* string after it was moved from.
RespondOK_LengthAfterMove(s, out) ==
  SendResponse(SetResponseContent(SetResponseStatus(s, kOK),
                                  kTextJsonUtf8, 0, out))

\* The reply of HandleSession after the service has written out.
RespondOK(s, out) ==
  SendResponse(SetResponseContent(SetResponseStatus(s, kOK),
                                  kTextJsonUtf8, Len(out), out))

\* HandleSession that replies kOK where no service matches.
HandleSession_NoMatchOK(items, s, out) ==
  LET url == s.request.url IN
  IF ~IsValid(url)
  THEN [session     |-> RespondBadRequest(s),
        ret         |-> kBadRequest,
        lookups     |-> <<>>,
        service     |-> NullService,
        sub_matches |-> <<>>,
        handled     |-> <<>>]
  ELSE LET g == GetService(items, UrlPath(url), <<>>) IN
       [session     |-> RespondOK(s, IF g.service = NullService
                                     THEN <<>> ELSE out),
        ret         |-> kOK,
        lookups     |-> <<UrlPath(url)>>,
        service     |-> g.service,
        sub_matches |-> g.sub_matches,
        handled     |-> IF g.service = NullService THEN <<>>
                        ELSE <<[service |-> g.service,
                                method  |-> s.request.method,
                                content |-> s.request.content,
                                output  |-> out]>>]

\* HandleSession that looks the path up before it checks the URL.
HandleSession_LookupFirst(items, s, out) ==
  LET url == s.request.url
      g   == GetService(items, UrlPath(url), <<>>)
  IN IF ~IsValid(url) \/ g.service = NullService
     THEN [session     |-> RespondBadRequest(s),
           ret         |-> kBadRequest,
           lookups     |-> <<UrlPath(url)>>,
           service     |-> g.service,
           sub_matches |-> g.sub_matches,
           handled     |-> <<>>]
     ELSE [session     |-> RespondOK(s, out),
           ret         |-> kOK,
           lookups     |-> <<UrlPath(url)>>,
           service     |-> g.service,
           sub_matches |-> g.sub_matches,
           handled     |-> <<[service |-> g.service,
                              method  |-> s.request.method,
                              content |-> s.request.content,
                              output  |-> out]>>]

\* HandleSession on session s, where a matched service's Handle writes out.
\* lookups lists the paths GetService was called with, handled the
\* (service, method, content) Handle was called with.
HandleSession(items, s, out) ==
  LET url == s.request.url IN
  IF ~IsValid(url)
  THEN [session     |-> RespondBadRequest(s),
        ret         |-> kBadRequest,
        lookups     |-> <<>>,
        service     |-> NullService,
        sub_matches |-> <<>>,
        handled     |-> <<>>]
  ELSE LET g == GetService(items, UrlPath(url), <<>>) IN
       IF g.service = NullService
       THEN [session     |-> RespondBadRequest(s),
             ret         |-> kBadRequest,
             lookups     |-> <<UrlPath(url)>>,
             service     |-> g.service,
             sub_matches |-> g.sub_matches,
             handled     |-> <<>>]
       ELSE [session     |-> RespondOK(s, out),
             ret         |-> kOK,
             lookups     |-> <<UrlPath(url)>>,
             service     |-> g.service,
             sub_matches |-> g.sub_matches,
             handled     |-> <<[service |-> g.service,
                                method  |-> s.request.method,
                                content |-> s.request.content,
                                output  |-> out]>>]

\* RestServer::RegisterService -> RestRequestHandler::RegisterService ->
\* RestServiceManager::AddService.
RegisterService(service, url) ==
  /\ Len(service_items_) < MaxServices
  /\ service = Len(service_items_) + 1
  /\ LET a == AddService(service_items_, service, url) IN
       /\ service_items_' = a.items
       /\ call' = [op |-> "AddService", service |-> service, url |-> url,
                   ret |-> a.ret]
  /\ UNCHANGED <<session, workers, clientVars>>

\* The server hands a session to the dispatcher.
Dispatch(request, out) ==
  /\ LET h == HandleSession(service_items_, NewSession(request), out) IN
       /\ session' = h.session
       /\ call' = [op |-> "HandleSession", ret |-> h.ret,
                   lookups |-> h.lookups, service |-> h.service,
                   sub_matches |-> h.sub_matches, handled |-> h.handled]
  /\ UNCHANGED <<service_items_, workers, clientVars>>

\* A worker thread calls GetService from HandleSession for a valid URL.
WorkerBegin(w, url) ==
  /\ workers[w].at = "idle"
  /\ workers' = [workers EXCEPT ![w] = [at |-> "scanning", url |-> url,
                                        k |-> 1, sub_matches |-> <<>>,
                                        service |-> NullService]]
  /\ UNCHANGED <<service_items_, call, session, clientVars>>

\* A worker thread runs one iteration of the loop of GetService.
WorkerScan(w) ==
  /\ workers[w].at = "scanning"
  /\ LET g == GetServiceStep(service_items_, workers[w]) IN
       /\ service_items_' = g.items
       /\ workers' = [workers EXCEPT ![w] = g.local]
  /\ UNCHANGED <<call, session, clientVars>>

\* A worker thread is done with the result of GetService.
WorkerEnd(w) ==
  /\ workers[w].at = "returned"
  /\ workers' = [workers EXCEPT ![w] = NoLookup]
  /\ UNCHANGED <<service_items_, call, session, clientVars>>

\* RegisterService while no worker thread is inside GetService.
ServeRegister(service, url) ==
  /\ \A w \in Workers : workers[w].at = "idle"
  /\ RegisterService(service, url)

(***************************************************************************)
(* Specifications                                                          *)
(***************************************************************************)
Init ==
  /\ client = HttpClientBase
  /\ pc = "idle"
  /\ result = FALSE
  /\ error = kNoError
  /\ depth = 0
  /\ peer = "active"
  /\ requests = 0
  /\ service_items_ = <<>>
  /\ call = [op |-> "none"]
  /\ session = NewSession([url |-> [valid |-> FALSE, path |-> <<>>],
                           method |-> "GET", content |-> <<>>])
  /\ workers = [w \in Workers |-> NoLookup]

Next ==
  \/ \E seconds \in TimeoutInputs : SetTimeout(seconds)
  \/ \E resolve_ok \in BOOLEAN, connect_ok \in BOOLEAN, write_ok \in BOOLEAN,
        behaviour \in {"silent", "active"} :
       Request(resolve_ok, connect_ok, write_ok, behaviour)
  \/ DeadlinePasses
  \/ TimerFires
  \/ \E r \in PeerReads : ReadCompletes(r)
  \/ RunOneDeadline
  \/ RunOneRead

Spec == Init /\ [][Next]_vars

RestNext ==
  \/ \E service \in Services, url \in UrlPatterns :
       RegisterService(service, url)
  \/ \E request \in Requests, out \in Outputs : Dispatch(request, out)

RestSpec == Init /\ [][RestNext]_vars

\* Worker threads of the server looking services up side by side.
ServeNext ==
  \/ \E service \in Services, url \in UrlPatterns :
       ServeRegister(service, url)
  \/ \E w \in Workers, url \in Paths : WorkerBegin(w, url)
  \/ \E w \in Workers : WorkerScan(w)
  \/ \E w \in Workers : WorkerEnd(w)

ServeSpec == Init /\ [][ServeNext]_vars

\* The calling thread keeps stepping the io_context while it is inside
\* Request, the clock advances and an expired timer completes its waits.
FairSpec ==
  /\ Spec
  /\ WF_vars(RunOneDeadline)
  /\ WF_vars(RunOneRead)
  /\ WF_vars(DeadlinePasses)
  /\ WF_vars(TimerFires)

(***************************************************************************)
(* Properties of HttpClientBase                                            *)
(***************************************************************************)

\* C2: if the timed-out flag is set when Request returns, Request returned
\* false and the error code is not kNoError.
TimedOutMeansFailure ==
  (pc = "done" /\ client.timed_out_) =>
    (result = FALSE /\ client.error_ # kNoError)

\* C3: Request returns true only if the parser reported the response
\* finished during the call.
TrueOnlyIfFinished ==
  (pc = "done" /\ result) => client.finished

\* C4: when connect and send succeeded and the peer never sends a byte,
\* Request returns, and it returns false with the timed-out flag set.
SilentPeerTimesOut ==
  /\ [][(pc = "reading" /\ peer = "silent" /\ pc' = "done")
          => (~result' /\ client'.timed_out_)]_vars
  /\ ((pc = "reading" /\ peer = "silent") ~> (pc = "done"))

\* A Request to a silent peer has returned after its deadline handler ran.
SilentPeerReturned ==
  /\ pc = "done"
  /\ peer = "silent"
  /\ client.timed_out_
  /\ ~result
  /\ client.error_ = kSocketReadError

\* C5: when Request returns, no wait handler and no read handler is left
\* outstanding or queued on the io_context.
NothingLeftOnReturn ==
  pc = "done" =>
    (client.queue = <<>> /\ client.waits = 0 /\ ~client.read_pending)

\* C6: within one Request the socket is closed at most once and the timer
\* cancelled at most once, and a Stop after the first changes nothing.
StopIdempotent ==
  /\ client.closes <= 1
  /\ client.cancels <= 1
  /\ client.stopped_ => [Stop(client) EXCEPT !.stops = client.stops] = client

\* Stop has been invoked more than once in the current Request.
StopInvokedTwice ==
  /\ client.stops >= 2
  /\ client.stopped_
  /\ client.closes = 1
  /\ client.cancels = 1

\* The last thing the current Request did.
LastEvent == client.log[Len(client.log)]

\* The error code that names the event a Request ended with.
ErrorOf(event) ==
  CASE event = "resolve_err" -> kHostResolveError
    [] event = "connect_err" -> kEndpointConnectError
    [] event = "write_err" -> kSocketWriteError
    [] event \in {"read_eof", "read_err", "read_aborted"} -> kSocketReadError
    [] event = "read_bad" -> kHttpError
    [] OTHER -> kNoError

\* C13: Request returns true exactly when error_ is kNoError on return, and
\* the error code names what failed: resolve, connect, write, a read that
\* gave zero bytes or an I/O error, or the parser rejecting the bytes.
ErrorNamesPhase ==
  pc = "done" =>
    /\ result = (client.error_ = kNoError)
    /\ client.error_ = ErrorOf(LastEvent)

\* A Request ended because the parser rejected the bytes of its second read.
ParseFailureReturned ==
  /\ pc = "done"
  /\ ~result
  /\ LastEvent = "read_bad"
  /\ client.parsed = 1
  /\ client.error_ = kHttpError

\* C14: the timeout is always positive; SetTimeout with seconds <= 0 leaves
\* it as it was and with seconds > 0 sets it to seconds.
TimeoutPositive ==
  /\ [](client.timeout_seconds_ > 0)
  /\ [][(client'.seconds # client.seconds
           \/ client'.timeout_seconds_ # client.timeout_seconds_)
         => client'.timeout_seconds_ =
              (IF client'.seconds > 0 THEN client'.seconds
               ELSE client.timeout_seconds_)]_vars

\* SetTimeout was called with a non-positive value after the timeout had
\* been set to 1.
NonPositiveIgnored ==
  /\ client.seconds <= 0
  /\ client.timeout_seconds_ = 1

\* C16: every Request starts with the stop flag and the timed-out flag
\* clear, the error kNoError and a fresh response and parser, whatever the
\* previous call left; what is seen after a call comes from that call.
FreshStart ==
  /\ [][requests' = requests + 1 =>
          /\ client'.last = [stopped_ |-> client.stopped_,
                             timed_out_ |-> client.timed_out_,
                             error_ |-> client.error_,
                             finished |-> client.finished]
          /\ ~client'.timed_out_
          /\ ~client'.finished
          /\ client'.parsed = 0
          /\ pc' = "reading" =>
               (~client'.stopped_ /\ client'.error_ = kNoError
                  /\ error' = kNoError)]_vars
  /\ [](pc = "done" =>
          /\ client.stopped_ = (client.stops > 0)
          /\ client.timed_out_ =>
               \E i \in 1..Len(client.log) : client.log[i] = "OnDeadline"
          /\ client.finished =>
               \E i \in 1..Len(client.log) : client.log[i] = "read_last"
          /\ client.error_ = ErrorOf(LastEvent))

\* A Request has started reading after a Request that timed out.
StartedAfterTimeout ==
  /\ pc = "reading"
  /\ client.last.timed_out_
  /\ client.last.stopped_
  /\ client.last.error_ = kSocketReadError
  /\ ~client.timed_out_
  /\ ~client.stopped_
  /\ client.error_ = kNoError

\* C17 as stated: the stop flag is set whenever Request returns.
StoppedOnReturn ==
  pc = "done" => client.stopped_

\* C17, amended: the stop flag is set when Request returns, except after a
\* host-resolution failure, where it is clear.
StoppedUnlessResolveFailed ==
  pc = "done" => (client.stopped_ = (LastEvent # "resolve_err"))

\* A Request returned after a write failure, stopped.
WriteFailureStopped ==
  /\ pc = "done"
  /\ LastEvent = "write_err"
  /\ client.stopped_
  /\ client.stops = 1

\* C18: in one Request the write is attempted only after resolve and
\* connect succeeded, the timer is armed and a read issued only after the
\* write succeeded, nothing follows a failed phase, and resolve, connect
\* and write are each attempted at most once.
PhaseOrder ==
  /\ \A i \in 1..Len(client.log) :
       LET event == client.log[i] IN
       /\ event \in {"resolve_ok", "resolve_err"} => i = 1
       /\ event \in {"connect_ok", "connect_err"} =>
            (i = 2 /\ client.log[1] = "resolve_ok")
       /\ event \in {"write_ok", "write_err"} =>
            (i = 3 /\ client.log[2] = "connect_ok")
       /\ event \notin {"resolve_ok", "resolve_err", "connect_ok",
                        "connect_err", "write_ok", "write_err"} =>
            (i > 3 /\ client.log[3] = "write_ok")
  /\ (client.waits > 0 \/ client.read_pending) =>
       (Len(client.log) > 3 /\ client.log[3] = "write_ok")

\* A Request went through every phase and returned true.
AllPhasesDone ==
  /\ pc = "done"
  /\ result
  /\ SubSeq(client.log, 1, 5) =
       <<"resolve_ok", "connect_ok", "write_ok", "wait", "read">>

\* C19: every Request returns, whatever the peer does and in whatever
\* order the handlers are dispatched; the run_one loop is never left
\* spinning on a stopped io_context.
AlwaysReturns ==
  /\ (pc = "reading") ~> (pc = "done")
  /\ [](pc = "reading" => ~client.io_stopped)

\* A peer sent a part of the response and then nothing; the Request
\* returned by its deadline.
PartialThenSilence ==
  /\ pc = "done"
  /\ peer = "active"
  /\ client.parsed >= 1
  /\ ~client.finished
  /\ client.timed_out_
  /\ LastEvent = "read_aborted"

\* A step in which run_one dispatches the deadline handler.
DeadlineDispatched ==
  /\ Len(client'.log) > Len(client.log)
  /\ requests' = requests
  /\ client'.log[Len(client.log) + 1] = "OnDeadline"

\* C20: only the deadline handler sets the timed-out flag, and only when
\* the engine is not stopped and the expiry time is reached; dispatched
\* before the expiry it waits again without stopping; dispatched after a
\* stop it does nothing.
TimedOutOnlyByDeadline ==
  [][/\ (client'.timed_out_ /\ ~client.timed_out_) =>
          (DeadlineDispatched /\ ~client.stopped_ /\ client.expired)
     /\ (DeadlineDispatched /\ ~client.stopped_ /\ ~client.expired) =>
          /\ client'.waits = client.waits + 1
          /\ ~client'.stopped_
          /\ client'.timed_out_ = client.timed_out_
          /\ pc' = pc
     /\ (DeadlineDispatched /\ client.stopped_) =>
          /\ client' = [client EXCEPT !.queue = Tail(@),
                                      !.log = Append(@, "OnDeadline")]
          /\ pc' = pc]_vars

\* A deadline handler was dispatched before the expiry and waits again.
WaitsAgainBeforeExpiry ==
  /\ pc = "reading"
  /\ Len(client.log) >= 2
  /\ client.log[Len(client.log) - 1] = "OnDeadline"
  /\ LastEvent = "wait"
  /\ ~client.expired
  /\ ~client.stopped_
  /\ ~client.timed_out_

(***************************************************************************)
(* Properties of RestServiceManager and RestRequestHandler                 *)
(***************************************************************************)

\* The items whose pattern fully matches path.
Matching(path) ==
  {i \in 1..Len(service_items_) :
     regex_match(path, service_items_[i].url_regex).ok}

\* How often op occurs in the trace t.
Count(t, op) == Cardinality({i \in 1..Len(t) : t[i] = op})

\* C1: GetService returns the service of the lowest-index item whose
\* pattern fully matches the path, and the empty pointer exactly when no
\* item matches.
FirstMatchWins ==
  (call.op = "HandleSession" /\ call.lookups # <<>>) =>
    LET m == Matching(call.lookups[1]) IN
    IF m = {}
    THEN call.service = NullService
    ELSE /\ call.service # NullService
         /\ call.service =
              service_items_[CHOOSE i \in m : \A k \in m : i <= k].service

\* Two items match the path looked up and the first one's service came back.
FirstOfTwoMatches ==
  /\ call.op = "HandleSession"
  /\ call.lookups # <<>>
  /\ Cardinality(Matching(call.lookups[1])) >= 2
  /\ 1 \in Matching(call.lookups[1])
  /\ call.service = service_items_[1].service

\* C7: AddService with a pattern that does not compile returns false and
\* leaves service_items_ as it was; with one that compiles it returns true
\* and appends exactly one item at the end.
RegisterContract ==
  [][(call'.op = "AddService"
        /\ <<call, service_items_>>' # <<call, service_items_>>)
      => IF RegexAssign(call'.url).ok
         THEN /\ call'.ret
              /\ Len(service_items_') = Len(service_items_) + 1
              /\ SubSeq(service_items_', 1, Len(service_items_))
                   = service_items_
              /\ service_items_'[Len(service_items_')].service
                   = call'.service
              /\ service_items_'[Len(service_items_')].url = call'.url
         ELSE /\ ~call'.ret
              /\ service_items_' = service_items_]_vars

\* A registration failed on a registry that already holds an item.
FailedRegister ==
  /\ call.op = "AddService"
  /\ ~call.ret
  /\ ~RegexAssign(call.url).ok
  /\ service_items_ # <<>>

\* C8: HandleSession sets status 400 exactly when the target is not a
\* valid URL or no item matches its path, 200 otherwise, and returns the
\* status it set.
StatusContract ==
  call.op = "HandleSession" =>
    LET url == session.request.url IN
    /\ session.status =
         (IF IsValid(url) /\ Matching(UrlPath(url)) # {}
          THEN kOK ELSE kBadRequest)
    /\ call.ret = session.status

\* A valid target that no item of a non-empty registry matches got 400.
NoRouteRejected ==
  /\ call.op = "HandleSession"
  /\ IsValid(session.request.url)
  /\ service_items_ # <<>>
  /\ Matching(UrlPath(session.request.url)) = {}
  /\ session.status = kBadRequest

\* C9: one HandleSession sets the status exactly once and calls
\* SendResponse exactly once, after the status and the content were set.
ResponseOnce ==
  call.op = "HandleSession" =>
    LET t == session.trace IN
    /\ Count(t, "SetResponseStatus") = 1
    /\ Count(t, "SendResponse") = 1
    /\ session.sent = 1
    /\ t[Len(t)] = "SendResponse"
    /\ Count(t, "SetResponseContent") = Len(call.handled)

\* Each of the three paths of HandleSession: here the one with no route.
NoRouteReplied ==
  /\ call.op = "HandleSession"
  /\ IsValid(session.request.url)
  /\ call.service = NullService
  /\ session.trace = <<"SetResponseStatus", "SendResponse">>

\* C10: with a target that is not a valid URL, HandleSession replies 400
\* without calling GetService and without calling a service's Handle.
InvalidTargetNoLookup ==
  (call.op = "HandleSession" /\ ~IsValid(session.request.url)) =>
    /\ session.status = kBadRequest
    /\ call.ret = kBadRequest
    /\ call.lookups = <<>>
    /\ call.handled = <<>>

\* An invalid target whose path a registered item would match got 400.
InvalidTargetRejected ==
  /\ call.op = "HandleSession"
  /\ ~IsValid(session.request.url)
  /\ Matching(UrlPath(session.request.url)) # {}
  /\ session.status = kBadRequest
  /\ call.lookups = <<>>

\* C11: on a match the service's Handle is called exactly once, with the
\* request's method and content, and its output is set as the response
\* content with its length and the JSON/UTF-8 type; with an invalid target
\* or no match, Handle is not called and no content is set.
HandlerContract ==
  call.op = "HandleSession" =>
    LET url == session.request.url IN
    IF IsValid(url) /\ Matching(UrlPath(url)) # {}
    THEN /\ Len(call.handled) = 1
         /\ call.handled[1].service = call.service
         /\ call.handled[1].method = session.request.method
         /\ call.handled[1].content = session.request.content
         /\ Count(session.trace, "SetResponseContent") = 1
         /\ session.content = call.handled[1].output
         /\ session.content_length = Len(call.handled[1].output)
         /\ session.content_type = kTextJsonUtf8
    ELSE /\ call.handled = <<>>
         /\ Count(session.trace, "SetResponseContent") = 0
         /\ session.content = <<>>
         /\ session.content_length = 0
         /\ session.content_type = ""

\* A POST with a body was dispatched and the service wrote a non-empty
\* output.
HandlerInvoked ==
  /\ call.op = "HandleSession"
  /\ Len(call.handled) = 1
  /\ call.handled[1].method = "POST"
  /\ call.handled[1].content # <<>>
  /\ session.content # <<>>
  /\ session.content_length = 2

\* What a pattern's groups capture, read off the pattern without running
\* the matcher: the ".*" at position i takes lens[i] characters, every
\* other token but a parenthesis takes one.
StarPositions(url) == {i \in 1..Len(url) : url[i] = ".*"}

Width(url, lens, i) ==
  IF url[i] \in {"(", ")"} THEN 0
  ELSE IF url[i] = ".*" THEN lens[i]
  ELSE 1

\* Characters of the path taken by the tokens before position i.
RECURSIVE Offset(_, _, _)
Offset(url, lens, i) ==
  IF i = 1 THEN 0
  ELSE Offset(url, lens, i - 1) + Width(url, lens, i - 1)

Fits(url, lens, path) ==
  /\ Offset(url, lens, Len(url) + 1) = Len(path)
  /\ \A i \in 1..Len(url) :
       url[i] \notin {"(", ")", ".*", "."} =>
         Lower(path[Offset(url, lens, i) + 1]) = Lower(url[i])

\* The fitting assignment in which each ".*" from the left takes as much
\* as it can.
Greedy(url, path) ==
  LET fits == {lens \in [StarPositions(url) -> 0..Len(path)] :
                 Fits(url, lens, path)}
  IN CHOOSE lens \in fits :
       \A other \in fits :
         other = lens \/
         \E i \in StarPositions(url) :
           /\ lens[i] > other[i]
           /\ \A k \in StarPositions(url) : k < i => lens[k] = other[k]

\* Position of the "(" of group g, and of the ")" that closes it.
OpenOf(url, g) ==
  CHOOSE i \in 1..Len(url) : url[i] = "(" /\ GroupNo(url, i) = g

CloseOf(url, g) ==
  CHOOSE j \in (OpenOf(url, g) + 1)..Len(url) :
    /\ ParenDepth(url, j) = ParenDepth(url, OpenOf(url, g)) - 1
    /\ \A k \in (OpenOf(url, g) + 1)..(j - 1) :
         ParenDepth(url, k) >= ParenDepth(url, OpenOf(url, g))

ExpectedGroups(url, path) ==
  LET lens == Greedy(url, path) IN
  [g \in 1..GroupNo(url, Len(url)) |->
     SubSeq(path, Offset(url, lens, OpenOf(url, g)) + 1,
                  Offset(url, lens, CloseOf(url, g)))]

\* C12: when the first item whose pattern fully matches the path is
\* (service, P), GetService returns service and sub_matches holds P's
\* capturing groups 1..n in order, without group 0; when no item matches,
\* nothing is added to sub_matches.
CapturedGroups ==
  (call.op = "HandleSession" /\ call.lookups # <<>>) =>
    LET path == call.lookups[1]
        m    == Matching(path)
    IN IF m = {}
       THEN /\ call.service = NullService
            /\ call.sub_matches = <<>>
       ELSE LET first == CHOOSE i \in m : \A k \in m : i <= k IN
            /\ call.service = service_items_[first].service
            /\ call.sub_matches =
                 ExpectedGroups(service_items_[first].url, path)

\* A path was matched by a pattern with two groups, both non-empty.
TwoGroupsCaptured ==
  /\ call.op = "HandleSession"
  /\ call.service # NullService
  /\ Len(call.sub_matches) = 2
  /\ call.sub_matches[1] # <<>>
  /\ call.sub_matches[2] # <<>>

\* C15: GetService never changes service_items_, and with the registry
\* fixed while lookups run, a lookup interleaved with the lookups of other
\* workers returns the service and sub-matches it returns when run alone.
LookupsIndependent ==
  /\ [][workers' # workers => service_items_' = service_items_]_vars
  /\ [](\A w \in Workers :
          workers[w].at = "returned" =>
            [service |-> workers[w].service,
             sub_matches |-> workers[w].sub_matches]
              = GetService(service_items_, workers[w].url, <<>>))

\* One worker has returned from a lookup that matched the second item
\* while the other is in the middle of its own.
LookupsOverlap ==
  /\ workers["w1"].at = "returned"
  /\ workers["w1"].k = 2
  /\ workers["w1"].service = 2
  /\ Len(workers["w1"].sub_matches) >= 1
  /\ workers["w2"].at = "scanning"
  /\ workers["w2"].k = 2
  /\ workers["w2"].url # workers["w1"].url

====
